---------------------------- MODULE Spec2Model ----------------------------
(***************************************************************************)
(* A model of MIDI_lib: the Standard MIDI File encoder (midifile.py) and   *)
(* the decoder MidiParser (midiparser.py).                                 *)
(*                                                                         *)
(* Bytes are the integers 0..255 and a byte string is a sequence of them.  *)
(* Python objects are records with a field "kind" naming their class; a    *)
(* raised exception is the record Raise(<exception class>).                *)
(***************************************************************************)
EXTENDS Integers, Sequences, FiniteSets, TLC

VARIABLES
    file,           \* MidiParser.file: the bytes of the stream
    pos,            \* the stream's read position (file.tell())
    closed,         \* whether file.close() has been called
    pc,             \* the statement the running call is at
    outcome,        \* "running", "returned" or "raised"
    exc,            \* the class of the exception that ended the call
    header,         \* read_all's local header
    tracks,         \* read_all's local tracks
    events,         \* __read_track's local events
    current_event,  \* __read_track's local current_event
    result,         \* the value the call returned
    decoded,        \* the value a reader returned to a caller that checks it
    src             \* the caller's input: the object or arguments it holds

vars == <<file, pos, closed, pc, outcome, exc, header, tracks, events,
          current_event, result, decoded, src>>

-----------------------------------------------------------------------------
(* Python values *)

None == [kind |-> "None"]

Raise(e) == [kind |-> "Raise", exc |-> e]

IsRaise(x) == x.kind = "Raise"

Min(a, b) == IF a <= b THEN a ELSE b

RECURSIVE Pow2(_)
Pow2(k) == IF k = 0 THEN 1 ELSE 2 * Pow2(k - 1)

\* max(data) of a non-empty list
RECURSIVE MaxOf(_)
MaxOf(s) ==
    IF Len(s) = 1 THEN s[1]
    ELSE LET m == MaxOf(Tail(s)) IN IF s[1] >= m THEN s[1] ELSE m

\* b''.join(list of byte strings)
RECURSIVE Join(_)
Join(ss) == IF ss = <<>> THEN <<>> ELSE ss[1] \o Join(Tail(ss))

\* the sequences over S of length lo..hi
SeqsOf(S, lo, hi) == UNION {[1..k -> S] : k \in lo..hi}

\* struct.pack('>H', n) and struct.pack('>L', n)
PackH(n) == <<(n \div 256) % 256, n % 256>>

PackL(n) == <<(n \div 16777216) % 256, (n \div 65536) % 256,
              (n \div 256) % 256, n % 256>>

\* struct.unpack('>H', two bytes)
UnpackH(b) == b[1] * 256 + b[2]

-----------------------------------------------------------------------------
(* midifile.py: StatusBytes *)

StatusBytes_meta == {0, 1, 2, 3, 4, 5, 6, 7, 8, 9, 32, 33, 47, 81, 84, 88, 89, 127}

StatusBytes_sysex == {240, 247}

StatusBytes_midi == {128, 144, 160, 176, 192, 208, 224}

-----------------------------------------------------------------------------
(* midifile.py: Event *)

\* the number of further 7-bit groups Event.variable_len appends
VarLenExtraGroups == 2

\* the bound Event.__init__ checks delta_time against, 4294967167, as its
\* two 16-bit halves (0xFFFF and 0xFF7F): the model's integers are 32-bit
DeltaTimeLimitHigh == 65535

DeltaTimeLimitLow == 65407

\* 0 <= delta_time <= 4294967167
DeltaTimeInRange(delta_time) ==
    /\ 0 <= delta_time
    /\ \/ delta_time \div 65536 < DeltaTimeLimitHigh
       \/ /\ delta_time \div 65536 = DeltaTimeLimitHigh
          /\ delta_time % 65536 <= DeltaTimeLimitLow

\* the loop of Event.variable_len: variable_length after cnt more iterations
RECURSIVE VarLenLoop(_, _, _)
VarLenLoop(n, variable_length, cnt) ==
    IF cnt = 0 THEN variable_length
    ELSE IF n > 0
         THEN VarLenLoop(n \div 128,
                         Append(variable_length, (n % 128) + 128), cnt - 1)
         ELSE VarLenLoop(n, variable_length, cnt - 1)

RECURSIVE Reverse(_)
Reverse(s) == IF s = <<>> THEN <<>> ELSE Append(Reverse(Tail(s)), s[1])

\* Event.variable_len(time_or_len), for time_or_len >= 0
variable_len(time_or_len) ==
    Reverse(VarLenLoop(time_or_len \div 128, <<time_or_len % 128>>,
                       VarLenExtraGroups))

\* Event.__init__, with the class of the object being built
Event(cls, delta_time, status, data, event_type) ==
    IF ~DeltaTimeInRange(delta_time)
    THEN Raise("MidiError")
    ELSE [kind |-> cls, delta_time |-> delta_time, status |-> status,
          data |-> data, event_type |-> event_type]

\* the status of a MidiEvent whose payload is one byte, as MidiEvent.__init__ has it
OneByteStatuses == {192, 223}

\* MidiEvent.__init__
MidiEvent(delta_time, status, channel_number, data) ==
    IF ~(0 <= channel_number /\ channel_number <= 15)
    THEN Raise("ChannelError")
    ELSE IF status \notin StatusBytes_midi
    THEN Raise("StatusError")
    ELSE IF \/ (status \in OneByteStatuses /\ Len(data) # 1)
            \/ (status \notin OneByteStatuses /\ Len(data) # 2)
    THEN Raise("DataLengthError")
    ELSE IF MaxOf(data) > 127
    THEN Raise("DataError")
    ELSE Event("MidiEvent", delta_time, status + channel_number, data, -1)

\* SysExEvent.__init__
SysExEvent(delta_time, status, data) ==
    IF status \notin StatusBytes_sysex
    THEN Raise("StatusError")
    ELSE Event("SysExEvent", delta_time, status, data, -1)

\* MetaEvent.__init__
MetaEvent(event_type, delta_time, data) ==
    IF event_type \notin StatusBytes_meta
    THEN Raise("MidiError")
    ELSE Event("MetaEvent", delta_time, 255, data, event_type)

\* Event.get_delta_time: the bytes of event[0]
get_delta_time(e) == variable_len(e.delta_time)

\* Event.to_hex over the event list each class builds
Event_to_hex(e) ==
    CASE e.kind = "MidiEvent" ->
            Join(<<variable_len(e.delta_time), <<e.status>>, e.data>>)
      [] e.kind = "SysExEvent" ->
            Join(<<variable_len(e.delta_time), <<e.status>>,
                   variable_len(Len(e.data)), e.data>>)
      [] e.kind = "MetaEvent" ->
            Join(<<variable_len(e.delta_time), <<e.status>>, <<e.event_type>>,
                   variable_len(Len(e.data)), e.data>>)

-----------------------------------------------------------------------------
(* midifile.py: Track, Header, MidiFormat *)

MThd == <<77, 84, 104, 100>>

MTrk == <<77, 84, 114, 107>>

\* the test of Track.running_status that decides whether the status byte of
\* event is left out: current_status == event.status < 240
SameStatus(current_status, event) ==
    current_status = event.status /\ event.status < 240

\* a running_status that keeps the status of the last MidiEvent across the
\* SysExEvents and MetaEvents that follow it
NextStatusKept(current_status, event) ==
    IF event.status < 240 THEN event.status ELSE current_status

\* what the loop of Track.running_status sets current_status to after event
NextStatus(current_status, event) == event.status

\* the loop of Track.running_status over the events after the first
RECURSIVE RunningStatusLoop(_, _, _)
RunningStatusLoop(rest, current_status, byte_string) ==
    IF rest = <<>> THEN byte_string
    ELSE LET event == rest[1]
             h == Event_to_hex(event)
             delta_time == get_delta_time(event)
             part == IF SameStatus(current_status, event)
                     THEN delta_time \o SubSeq(h, Len(delta_time) + 2, Len(h))
                     ELSE h
         IN  RunningStatusLoop(Tail(rest), NextStatus(current_status, event),
                               byte_string \o part)

\* Track.running_status
running_status(evs) ==
    RunningStatusLoop(Tail(evs), evs[1].status, Event_to_hex(evs[1]))

\* Track.length_and_bytes: the byte string (its length is Len of it)
length_and_bytes(evs, running_status_mode) ==
    IF running_status_mode
    THEN running_status(evs)
    ELSE Join([i \in 1..Len(evs) |-> Event_to_hex(evs[i])])

\* Track.__init__
Track(evs, running_status_mode) ==
    IF evs = <<>>
    THEN Raise("MidiError")
    ELSE LET b == length_and_bytes(evs, running_status_mode)
         IN  [kind |-> "Track", events |-> evs,
              running_status_mode |-> running_status_mode,
              length |-> Len(b), bytes |-> b]

\* Track.to_hex
Track_to_hex(t) == MTrk \o PackL(t.length) \o t.bytes

\* the first track count Header.__init__ refuses
TrackCountLimit == 15

\* Header.__init__
Header(file_format, ntracks, ppqn) ==
    IF file_format \notin {0, 1, 2}
    THEN Raise("MidiError")
    ELSE IF file_format = 0 /\ ntracks # 1
    THEN Raise("MidiError")
    ELSE IF ntracks >= TrackCountLimit
    THEN Raise("MidiError")
    ELSE [kind |-> "Header", length |-> 6, file_format |-> file_format,
          ntracks |-> ntracks, ppqn |-> ppqn]

\* Header.to_hex
Header_to_hex(h) ==
    MThd \o PackL(h.length) \o PackH(h.file_format) \o PackH(h.ntracks)
         \o PackH(h.ppqn)

\* MidiFormat.__init__ (a Header object is never falsy)
MidiFormat(hdr, trks) ==
    IF hdr.kind = "None"
    THEN Raise("MidiError")
    ELSE IF trks = <<>>
    THEN Raise("MidiError")
    ELSE [kind |-> "MidiFormat", header |-> hdr, tracks |-> trks]

\* MidiFormat.to_hex
MidiFormat_to_hex(m) ==
    Header_to_hex(m.header)
        \o Join([i \in 1..Len(m.tracks) |-> Track_to_hex(m.tracks[i])])

-----------------------------------------------------------------------------
(* midiparser.py: the private readers of MidiParser, as functions of the    *)
(* stream f and the position p.  Each returns a record holding the position *)
(* it leaves the stream at.                                                 *)

\* file.read(n) at position p: the bytes, fewer than n at the end of the stream
Read(f, p, n) == SubSeq(f, p + 1, Min(p + n, Len(f)))

\* the position after file.read(n)
Tell(f, p, n) == Min(p + n, Len(f))

\* the most bytes __read_var_len reads
VarLenMaxBytes == 4

\* MidiParser.__variable_len
RECURSIVE parser_variable_len(_, _)
parser_variable_len(array, output) ==
    IF array = <<>> THEN output
    ELSE parser_variable_len(Tail(array), output * 128 + (array[1] % 128))

\* the loop of MidiParser.__read_var_len with cnt iterations left
RECURSIVE ReadVarLenLoop(_, _, _, _)
ReadVarLenLoop(f, p, byte, cnt) ==
    IF cnt = 0
    THEN [kind |-> "Ok", value |-> parser_variable_len(byte, 0), pos |-> p]
    ELSE IF p >= Len(f)
    THEN [kind |-> "Raise", exc |-> "struct.error", pos |-> p]
    ELSE LET b == f[p + 1]
         IN  IF b <= 127
             THEN [kind |-> "Ok",
                   value |-> parser_variable_len(Append(byte, b), 0),
                   pos |-> p + 1]
             ELSE ReadVarLenLoop(f, p + 1, Append(byte, b), cnt - 1)

\* MidiParser.__read_var_len
read_var_len(f, p) == ReadVarLenLoop(f, p, <<>>, VarLenMaxBytes)

\* the payload length MidiParser.__read_midi_event_data reads for status
MidiDataLength(status) == IF 192 <= status /\ status <= 223 THEN 1 ELSE 2

\* a __read_event that seeks back over the candidate byte as well
SeekBackTwo == 1 + 1

\* how far the running-status branch of __read_event seeks back
SeekBack == 1

\* the test of __read_event for running status, on the previous event and
\* the candidate status byte
IsRunningStatus(current, status) ==
    (current.status - (current.status % 16)) \in StatusBytes_midi /\ status < 128

\* list[:-1]
AllButLast(s) == SubSeq(s, 1, Len(s) - 1)

\* a constructor's result as __read_event's: the event, or the exception
Built(event, p) ==
    IF IsRaise(event)
    THEN [kind |-> "Raise", exc |-> event.exc, pos |-> p]
    ELSE [kind |-> "Ok", event |-> event, pos |-> p]

\* MidiParser.__read_event from the candidate status byte on: delta_time has
\* been read and p is the position after the status byte
ReadEventBody(f, p, current, delta_time, status) ==
    IF IsRunningStatus(current, status)
    THEN LET n    == MidiDataLength(current.status)
             data == <<status>> \o AllButLast(Read(f, p, n))
             p2   == Tell(f, p, n) - SeekBack
             chn  == current.status % 16
         IN  Built(MidiEvent(delta_time, current.status - chn, chn, data), p2)
    ELSE IF status \notin {240, 247, 255}
    THEN LET n    == MidiDataLength(status)
             data == Read(f, p, n)
             chn  == status % 16
         IN  Built(MidiEvent(delta_time, status - chn, chn, data), Tell(f, p, n))
    ELSE IF status = 255
    THEN IF p >= Len(f)
         THEN [kind |-> "Raise", exc |-> "struct.error", pos |-> p]
         ELSE LET event_type == f[p + 1]
                  length     == read_var_len(f, p + 1)
              IN  IF IsRaise(length) THEN length
                  ELSE Built(MetaEvent(event_type, delta_time,
                                       Read(f, length.pos, length.value)),
                             Tell(f, length.pos, length.value))
    ELSE LET length == read_var_len(f, p)
         IN  IF IsRaise(length) THEN length
             ELSE Built(SysExEvent(delta_time, status,
                                   Read(f, length.pos, length.value)),
                        Tell(f, length.pos, length.value))

\* MidiParser.__read_event
ReadEvent(f, p, current) ==
    LET delta_time == read_var_len(f, p)
    IN  IF IsRaise(delta_time) THEN delta_time
        ELSE IF delta_time.pos >= Len(f)
        THEN [kind |-> "Raise", exc |-> "struct.error", pos |-> delta_time.pos]
        ELSE ReadEventBody(f, delta_time.pos + 1, current, delta_time.value,
                           f[delta_time.pos + 1])

\* the event __read_track passes to the first __read_event of a track:
\* MetaEvent(1, 0, 'Just Event'), its data the characters' codes
JustEvent == MetaEvent(1, 0, <<74, 117, 115, 116, 32, 69, 118, 101, 110, 116>>)

\* the loop test of __read_track: the event ends the track
IsEndOfTrack(event) == event.kind = "MetaEvent" /\ event.event_type = 47

\* the test of __read_header on the 8 bytes read: the header is read on
MagicAccepted(mthd) == mthd # <<>> /\ SubSeq(mthd, 1, Min(4, Len(mthd))) # MThd

\* MidiParser.__read_header
ReadHeader(f, p) ==
    LET mthd == Read(f, p, 8)
        p1   == Tell(f, p, 8)
        b    == Read(f, p1, 6)
        p2   == Tell(f, p1, 6)
    IN  IF MagicAccepted(mthd)
        THEN IF Len(b) < 6
             THEN [kind |-> "Raise", exc |-> "struct.error", pos |-> p2]
             ELSE LET h == Header(UnpackH(SubSeq(b, 1, 2)),
                                  UnpackH(SubSeq(b, 3, 4)),
                                  UnpackH(SubSeq(b, 5, 6)))
                  IN  IF IsRaise(h)
                      THEN [kind |-> "Raise", exc |-> h.exc, pos |-> p2]
                      ELSE [kind |-> "Ok", header |-> h, pos |-> p2]
        ELSE [kind |-> "Raise", exc |-> "ValueError", pos |-> p1]

-----------------------------------------------------------------------------
(* The inputs *)

\* the longest event list of a track the caller builds
MaxEvents == 3

\* the longest raw track body
MaxBody == 4

\* the events the caller builds tracks from: note on, program change, a
\* system exclusive message, end of track, a note on with a two-byte delta
\* time, and a channel pressure (which the constructor takes with two bytes)
EventPool ==
    { MidiEvent(0, 144, 0, <<5, 0>>), MidiEvent(0, 192, 0, <<5>>),
      SysExEvent(0, 240, <<5>>), MetaEvent(47, 0, <<>>),
      MidiEvent(128, 144, 0, <<5, 0>>), MidiEvent(0, 208, 0, <<5, 0>>) }

EventLists == SeqsOf(EventPool, 1, MaxEvents)

Tracks == {Track(evs, m) : evs \in EventLists, m \in BOOLEAN}

EndTrack == Track(<<MetaEvent(47, 0, <<>>)>>, TRUE)

\* one-track files of format 0, and two-track files of format 1 that pair a
\* track with the track holding only the end of track, in both orders
Containers ==
    {MidiFormat(Header(0, 1, 96), <<t>>) : t \in Tracks}
        \cup {MidiFormat(Header(1, 2, 96), <<t, EndTrack>>) : t \in Tracks}
        \cup {MidiFormat(Header(1, 2, 96), <<EndTrack, t>>) : t \in Tracks}

\* a file with another first byte ("XThd")
OtherMagic(f) == <<88>> \o Tail(f)

\* the bytes raw track bodies are made of: a zero, a data byte, the type of
\* end of track, note on, program change, and the meta status
BodyBytes == {0, 5, 47, 144, 192, 255}

Bodies == SeqsOf(BodyBytes, 0, MaxBody)

\* a one-track file with another magic and a raw track body
RawFile(body) ==
    OtherMagic(Header_to_hex(Header(1, 1, 96))) \o MTrk \o PackL(Len(body))
        \o body

\* files that end in or right after the header chunk
HeaderFiles ==
    { <<>>, <<77>>, MThd, SubSeq(Header_to_hex(Header(1, 1, 96)), 1, 11),
      Header_to_hex(Header(1, 1, 96)),
      OtherMagic(SubSeq(Header_to_hex(Header(1, 1, 96)), 1, 11)),
      OtherMagic(Header_to_hex(Header(1, 1, 96))),
      OtherMagic(Header_to_hex(Header(1, 0, 96))),
      <<88, 84, 104, 100, 0, 0, 0, 6, 0, 3, 0, 1, 0, 96>>,
      <<88, 84, 104, 100, 0, 0, 0, 6, 0, 0, 0, 2, 0, 96>>,
      <<88, 84, 104, 100, 0, 0, 0, 6, 0, 1, 0, 15, 0, 96>> }

-----------------------------------------------------------------------------
(* MidiParser.read_all, a statement at a time *)

Running(at) == outcome = "running" /\ pc = at

\* an exception leaves read_all: nothing catches it, and the file stays open
Raised(r) ==
    /\ outcome' = "raised"
    /\ exc' = r.exc
    /\ pos' = r.pos
    /\ UNCHANGED <<file, closed, pc, header, tracks, events, current_event,
                   result, decoded, src>>

\* where read_all goes on after n tracks: the next track, or the container
AfterTracks(h, n) == IF n < h.ntracks THEN "read_track" ELSE "MidiFormat"

Init ==
    /\ file = <<>>
    /\ src = None
    /\ pos = 0
    /\ closed = FALSE
    /\ pc = "MidiParser"
    /\ outcome = "running"
    /\ exc = ""
    /\ header = None
    /\ tracks = <<>>
    /\ events = <<>>
    /\ current_event = None
    /\ result = None
    /\ decoded = None

\* the caller opens a stream and builds MidiParser(file): the bytes of a
\* container it holds, the same with another magic, a raw one-track file, or
\* a file that ends in the header chunk
MidiParser_init ==
    /\ Running("MidiParser")
    /\ \/ \E c \in Containers : src' = c /\ file' = MidiFormat_to_hex(c)
       \/ \E c \in Containers :
              src' = None /\ file' = OtherMagic(MidiFormat_to_hex(c))
       \/ \E b \in Bodies : src' = None /\ file' = RawFile(b)
       \/ \E f \in HeaderFiles : src' = None /\ file' = f
    /\ pc' = "read_header"
    /\ UNCHANGED <<pos, closed, outcome, exc, header, tracks, events,
                   current_event, result, decoded>>

\* header = self.__read_header()
read_header ==
    /\ Running("read_header")
    /\ \E r \in {ReadHeader(file, pos)} :
           IF IsRaise(r) THEN Raised(r)
           ELSE /\ header' = r.header
                /\ pos' = r.pos
                /\ pc' = AfterTracks(r.header, 0)
                /\ UNCHANGED <<file, closed, outcome, exc, tracks, events,
                               current_event, result, decoded, src>>

\* __read_track up to its first __read_event
read_track ==
    /\ Running("read_track")
    /\ LET hdr == Read(file, pos, 8)
       IN  IF hdr = <<>>
           THEN Raised([exc |-> "ValueError", pos |-> Tell(file, pos, 8)])
           ELSE /\ pos' = Tell(file, pos, 8)
                /\ events' = <<>>
                /\ current_event' = JustEvent
                /\ pc' = "read_event"
                /\ UNCHANGED <<file, closed, outcome, exc, header, tracks,
                               result, decoded, src>>

\* one __read_event of __read_track, and the end of __read_track after the
\* event that ends the track
read_event ==
    /\ Running("read_event")
    /\ \E r \in {ReadEvent(file, pos, current_event)} :
           IF IsRaise(r) THEN Raised(r)
           ELSE /\ pos' = r.pos
                /\ IF IsEndOfTrack(r.event)
                   THEN /\ tracks' = Append(tracks,
                                            Track(Append(events, r.event), TRUE))
                        /\ events' = <<>>
                        /\ current_event' = None
                        /\ pc' = AfterTracks(header, Len(tracks) + 1)
                   ELSE /\ events' = Append(events, r.event)
                        /\ current_event' = r.event
                        /\ UNCHANGED <<tracks, pc>>
                /\ UNCHANGED <<file, closed, outcome, exc, header, result,
                               decoded, src>>

\* file = MidiFormat(header=header, tracks=tracks); self.file.close(); return file
read_all_return ==
    /\ Running("MidiFormat")
    /\ LET m == MidiFormat(header, tracks)
       IN  IF IsRaise(m) THEN Raised([exc |-> m.exc, pos |-> pos])
           ELSE /\ result' = m
                /\ closed' = TRUE
                /\ outcome' = "returned"
                /\ pc' = "return"
                /\ UNCHANGED <<file, pos, exc, header, tracks, events,
                               current_event, decoded, src>>

Next == MidiParser_init \/ read_header \/ read_track \/ read_event \/ read_all_return

Spec == Init /\ [][Next]_vars

\* the statements of read_all
read_all == read_header \/ read_track \/ read_event \/ read_all_return

\* read_all is straight-line code on one thread: once called it runs on until
\* it returns or raises
LiveSpec == Spec /\ WF_vars(read_all)

-----------------------------------------------------------------------------
(* Properties of read_all *)

\* the (delta_time, status, event_type, payload) tuples of a track; status
\* holds the channel of a MidiEvent
EventTuples(t) ==
    [i \in 1..Len(t.events) |->
        <<t.events[i].delta_time, t.events[i].status, t.events[i].event_type,
          t.events[i].data>>]

TrackTuples(m) == [i \in 1..Len(m.tracks) |-> EventTuples(m.tracks[i])]

\* C1: once read_all has ended on the bytes of to_hex() of a container, it
\* has returned a container with the same header fields and, track by track,
\* the same event tuples.
RoundTrip ==
    (src.kind = "MidiFormat" /\ outcome # "running")
        => /\ outcome = "returned"
           /\ result.header = src.header
           /\ TrackTuples(result) = TrackTuples(src)

\* the first four bytes of the stream are "MThd"
HasMagic == Len(file) >= 4 /\ SubSeq(file, 1, 4) = MThd

\* C3: once the header has been read, read_all has failed there with the
\* malformed-stream error exactly when the magic is absent or wrong, and with
\* the magic present it has gone on to the header's fields.
MagicChecked ==
    (outcome = "raised" \/ pc \notin {"MidiParser", "read_header"})
        => ((outcome = "raised" /\ pc = "read_header" /\ exc = "ValueError")
                <=> ~HasMagic)

\* C4: when read_all has ended, by a return or by an exception, the file is
\* closed.
ClosedOnExit == outcome # "running" => closed

\* the position after the delta time the next __read_event reads
AfterDelta == read_var_len(file, pos).pos

\* the next __read_event finds a candidate status byte with the high bit clear
CandidateIsData ==
    /\ Running("read_event")
    /\ ~IsRaise(read_var_len(file, pos))
    /\ AfterDelta < Len(file)
    /\ file[AfterDelta + 1] < 128

\* the payload length of the family of a wire status: one byte for program
\* change and channel pressure, two for the others
FamilyLength(status) ==
    IF status - (status % 16) \in {192, 208} THEN 1 ELSE 2

\* C9: a __read_event that follows a MidiEvent and finds a data byte where
\* the status byte would be yields a MidiEvent with that event's status
\* whose payload is the candidate byte and the rest of the family's length,
\* and leaves the stream right after that payload; after any other event
\* (the first of a track, a SysExEvent, a MetaEvent) it yields no event.
RunningStatusRead ==
    [][(CandidateIsData /\ outcome' = "running")
          => /\ current_event.kind = "MidiEvent"
             /\ current_event'.kind = "MidiEvent"
             /\ current_event'.status = current_event.status
             /\ current_event'.delta_time = read_var_len(file, pos).value
             /\ current_event'.data =
                    SubSeq(file, AfterDelta + 1,
                           AfterDelta + FamilyLength(current_event.status))
             /\ pos' = AfterDelta + FamilyLength(current_event.status)]_vars

\* the length of the bytes of a container with every status byte written
VerbatimLength(m) ==
    Len(MidiFormat_to_hex(
        MidiFormat(m.header,
                   [i \in 1..Len(m.tracks) |->
                       Track(m.tracks[i].events, FALSE)])))

\* C10: every iteration of the event loop of __read_track moves the stream
\* forward, and read_all ends, with a return or an exception, on every file.
ReadAllTerminates ==
    /\ [][(Running("read_event") /\ outcome' = "running") => pos' > pos]_vars
    /\ (pc = "read_header") ~> (outcome # "running")

\* C10: read_all has returned from a file in which a status byte was left
\* out: the file is shorter than its events written in full
ReadAllTerminatesWitness ==
    /\ outcome = "returned"
    /\ Len(file) < VerbatimLength(result)

-----------------------------------------------------------------------------
(* Event.variable_len and MidiParser.__read_var_len on their own: a caller   *)
(* encodes a number and reads the bytes back, or reads raw bytes.            *)

\* the largest multiple of a power of 128 tried, besides 127
MaxGroup == 3

\* the longest raw byte string read as a variable length quantity
MaxVlqBytes == 5

\* numbers around the multiples of 1, 128, 128^2 and 128^3, up to 2^28 - 1
VlqInputs ==
    {n \in {Pow2(7 * k) * m + d :
                k \in 0..3, m \in (1..MaxGroup) \cup {127}, d \in {-1, 0, 1}} :
        n >= 0}
        \cup {Pow2(28) - 1}

\* byte strings of bytes with and without the high bit
RawVlq == SeqsOf({0, 127, 128, 255}, 0, MaxVlqBytes)

\* every variable but the caller's, as no call has touched it
Untouched ==
    /\ pos = 0
    /\ closed = FALSE
    /\ outcome = "running"
    /\ exc = ""
    /\ header = None
    /\ tracks = <<>>
    /\ events = <<>>
    /\ current_event = None
    /\ result = None
    /\ decoded = None

VlqInit ==
    /\ \/ \E n \in VlqInputs :
              /\ src = [kind |-> "int", n |-> n]
              /\ file = <<>>
              /\ pc = "variable_len"
       \/ \E b \in RawVlq : src = None /\ file = b /\ pc = "read_var_len"
    /\ Untouched

\* byte_string = Event.variable_len(n), written to the stream
vlq_variable_len ==
    /\ Running("variable_len")
    /\ file' = variable_len(src.n)
    /\ pc' = "read_var_len"
    /\ UNCHANGED <<pos, closed, outcome, exc, header, tracks, events,
                   current_event, result, decoded, src>>

\* self.__read_var_len() at the start of the stream
vlq_read_var_len ==
    /\ Running("read_var_len")
    /\ \E r \in {read_var_len(file, pos)} :
           /\ decoded' = r
           /\ pos' = r.pos
    /\ pc' = "done"
    /\ UNCHANGED <<file, closed, outcome, exc, header, tracks, events,
                   current_event, result, src>>

VlqNext == vlq_variable_len \/ vlq_read_var_len

VlqSpec == VlqInit /\ [][VlqNext]_vars

\* C2: the bytes of variable_len(n) read back give n, for n up to 2^28 - 1.
VlqRoundTrip ==
    (pc = "done" /\ src.kind = "int")
        => (decoded.kind = "Ok" /\ decoded.value = src.n)

\* C8: __read_var_len returns a value only when the last byte it read has
\* the high bit clear, and raises on four bytes that all have it set.
VlqTerminated ==
    pc = "done"
        => /\ decoded.kind = "Ok" => file[decoded.pos] <= 127
           /\ (Len(file) >= 4 /\ \A i \in 1..4 : file[i] >= 128)
                  => IsRaise(decoded)

-----------------------------------------------------------------------------
(* MidiEvent on its own: a caller builds an event, writes its bytes and      *)
(* reads them back.                                                          *)

MidiEventArgs ==
    [kind : {"MidiEventArgs"},
     delta_time : {0, 127, 128, Pow2(21) - 1, Pow2(21), Pow2(28) - 1, Pow2(28)},
     status : StatusBytes_midi \cup {100, 223},
     channel_number : {0, 9, 15, 16},
     data : {<<>>, <<5>>, <<5, 0>>, <<5, 0, 1>>, <<128>>, <<5, 128>>}]

EventInit ==
    /\ src \in MidiEventArgs
    /\ file = <<>>
    /\ pc = "MidiEvent"
    /\ Untouched

\* event = MidiEvent(delta_time, status, channel_number, data)
event_MidiEvent ==
    /\ Running("MidiEvent")
    /\ \E e \in {MidiEvent(src.delta_time, src.status, src.channel_number,
                           src.data)} :
           IF IsRaise(e)
           THEN /\ outcome' = "raised"
                /\ exc' = e.exc
                /\ UNCHANGED <<result, pc>>
           ELSE /\ result' = e
                /\ pc' = "to_hex"
                /\ UNCHANGED <<outcome, exc>>
    /\ UNCHANGED <<file, pos, closed, header, tracks, events, current_event,
                   decoded, src>>

\* the stream holds event.to_hex()
event_to_hex ==
    /\ Running("to_hex")
    /\ file' = Event_to_hex(result)
    /\ pc' = "read_event"
    /\ UNCHANGED <<pos, closed, outcome, exc, header, tracks, events,
                   current_event, result, decoded, src>>

\* self.__read_event(MetaEvent(1, 0, 'Just Event')) at the start of the stream
event_read_event ==
    /\ Running("read_event")
    /\ \E r \in {ReadEvent(file, pos, JustEvent)} :
           /\ decoded' = r
           /\ pos' = r.pos
    /\ pc' = "done"
    /\ UNCHANGED <<file, closed, outcome, exc, header, tracks, events,
                   current_event, result, src>>

EventNext == event_MidiEvent \/ event_to_hex \/ event_read_event

EventSpec == EventInit /\ [][EventNext]_vars

\* the constructor has been called with a channel and a status it takes
Constructed ==
    /\ pc # "MidiEvent" \/ outcome = "raised"
    /\ src.channel_number \in 0..15
    /\ src.status \in StatusBytes_midi

\* C6: MidiEvent raises DataLengthError exactly when the payload is not one
\* byte for program change and channel pressure and two bytes for the other
\* families, and __read_event reads back a payload as long as the one the
\* constructor took.
DataLengthRule ==
    /\ Constructed
           => ((outcome = "raised" /\ exc = "DataLengthError")
                   <=> Len(src.data) # FamilyLength(src.status))
    /\ pc = "done"
           => (decoded.kind = "Ok" /\ Len(decoded.event.data) = Len(result.data))

\* C7: an event that exists has a delta time of at most 0x0FFFFFFF, and the
\* variable length quantity its bytes start with reads back as that delta time.
DeltaTimeReadsBack ==
    result.kind = "MidiEvent"
        => /\ result.delta_time <= Pow2(28) - 1
           /\ pc \in {"read_event", "done"}
                  => read_var_len(file, 0).value = result.delta_time

-----------------------------------------------------------------------------
(* Track on its own: a caller builds a track from events and writes it.      *)

\* the longest event list of a track built on its own
MaxTrackEvents == 4

\* two note ons on different channels, a program change with a two-byte
\* delta time, a system exclusive message, a text and the end of track
TrackEventPool ==
    { MidiEvent(0, 144, 0, <<5, 0>>), MidiEvent(0, 144, 1, <<5, 0>>),
      MidiEvent(128, 192, 0, <<5>>), SysExEvent(0, 240, <<5>>),
      MetaEvent(1, 0, <<5>>), MetaEvent(47, 0, <<>>) }

TrackArgs ==
    [kind : {"TrackArgs"},
     events : SeqsOf(TrackEventPool, 0, MaxTrackEvents),
     running_status_mode : BOOLEAN]

TrackInit ==
    /\ src \in TrackArgs
    /\ file = <<>>
    /\ pc = "Track"
    /\ Untouched

\* track = Track(events, running_status_mode)
track_Track ==
    /\ Running("Track")
    /\ \E t \in {Track(src.events, src.running_status_mode)} :
           IF IsRaise(t)
           THEN /\ outcome' = "raised"
                /\ exc' = t.exc
                /\ UNCHANGED <<result, pc>>
           ELSE /\ result' = t
                /\ pc' = "to_hex"
                /\ UNCHANGED <<outcome, exc>>
    /\ UNCHANGED <<file, pos, closed, header, tracks, events, current_event,
                   decoded, src>>

\* the stream holds track.to_hex()
track_to_hex ==
    /\ Running("to_hex")
    /\ file' = Track_to_hex(result)
    /\ pc' = "done"
    /\ UNCHANGED <<pos, closed, outcome, exc, header, tracks, events,
                   current_event, result, decoded, src>>

TrackNext == track_Track \/ track_to_hex

TrackSpec == TrackInit /\ [][TrackNext]_vars

\* the status byte of the i-th event is left out
StatusOmitted(evs, i) ==
    /\ i > 1
    /\ evs[i].kind = "MidiEvent"
    /\ evs[i].status = evs[i - 1].status

\* the bytes of the i-th event with and without its status byte
Written(evs, i) ==
    IF StatusOmitted(evs, i)
    THEN variable_len(evs[i].delta_time) \o evs[i].data
    ELSE Event_to_hex(evs[i])

\* C5: the bytes of a track built with running status are its events' bytes
\* in order, the first in full and each later one without its status byte
\* exactly when it is a MidiEvent with the status of the event just before it.
StatusByteElision ==
    (result.kind = "Track" /\ result.running_status_mode)
        => result.bytes =
               Join([i \in 1..Len(result.events) |-> Written(result.events, i)])

\* C5: a track is written whose second event repeats the first's status, and
\* whose fourth repeats it again after a SysExEvent or MetaEvent: the second
\* goes without its status byte and the fourth with it
StatusByteElisionWitness ==
    /\ pc = "done"
    /\ result.kind = "Track"
    /\ result.running_status_mode
    /\ Len(result.events) = 4
    /\ result.events[1].status < 240
    /\ result.events[2].status = result.events[1].status
    /\ result.events[3].status >= 240
    /\ result.events[4].status = result.events[1].status
    /\ Len(result.bytes) = Len(length_and_bytes(result.events, FALSE)) - 1

=============================================================================
